---- MODULE Spec2Model ----
(***************************************************************************)
(* Model of src/app.py: the Streamlit script that reads an uploaded        *)
(* schedule, normalises its headers, rebuilds start/end instants, filters  *)
(* the table, builds calendar events, shows two ratios and optionally      *)
(* writes the table to Firestore.                                          *)
(*                                                                         *)
(* One execution of the script is one behaviour: pc walks through the      *)
(* script top to bottom.  A DataFrame is a record                          *)
(*   [columns : set of names, dtype : name -> dtype, rows : Seq(name->cell)]*)
(* and a cell is a record [t, s, n]: t is "null", "str", "num" or "ts",    *)
(* s the text of a "str" cell, n the number of a "num" cell or the minutes *)
(* since 2000-01-01T00:00 of a "ts" cell (the calendar covers 2000..2099). *)
(***************************************************************************)
EXTENDS Integers, Sequences, FiniteSets, TLC

VARIABLES
  pc,                     \* where the script stands
  uploaded,               \* the frame read from the uploaded file
  df,                     \* the script's frame
  error,                  \* the column names st.error reported
  fdf,                    \* filter_dataframe's local frame
  to_filter_columns,      \* the chosen columns the loop has yet to visit
  widget,                 \* the filter widget last answered: column, kind, value
  filtered,               \* what filter_dataframe returned
  events,                 \* the events handed to the calendar
  pacientes_ausentes,     \* the two ratios shown, in hundredths of a percent
  profissional_ausentes,
  records                 \* the documents added to the Firestore collection

vars == <<pc, uploaded, df, error, fdf, to_filter_columns, widget, filtered,
          events, pacientes_ausentes, profissional_ausentes, records>>

-----------------------------------------------------------------------------
(* Bounds of the model *)

\* longest table of the row-variation family of uploads
MaxRows == 3
\* most columns the user picks in the "Filtrar os atributos" multiselect
MaxFilterCols == 1
\* rows a large upload has beyond the categorical threshold
MaxExtraRows == 3

-----------------------------------------------------------------------------
(* Program constants *)

DEFAULT_DURATION_MIN == 30
\* nunique() < 100 makes a column categorical
CategoricalThreshold == 100
\* str(description)[:30]
TitleDescriptionChars == 30

-----------------------------------------------------------------------------
(* Cells *)

NaN == [t |-> "null", s |-> "", n |-> 0]
Str(x) == [t |-> "str", s |-> x, n |-> 0]
Num(k) == [t |-> "num", s |-> "", n |-> k]
Ts(m) == [t |-> "ts", s |-> "", n |-> m]
IsNull(c) == c.t = "null"

Range(f) == {f[i] : i \in DOMAIN f}

-----------------------------------------------------------------------------
(* Text: str.lower, str.strip, digits *)

LowerChar(c) ==
  CASE c = "A" -> "a" [] c = "B" -> "b" [] c = "C" -> "c" [] c = "D" -> "d"
    [] c = "E" -> "e" [] c = "F" -> "f" [] c = "G" -> "g" [] c = "H" -> "h"
    [] c = "I" -> "i" [] c = "J" -> "j" [] c = "K" -> "k" [] c = "L" -> "l"
    [] c = "M" -> "m" [] c = "N" -> "n" [] c = "O" -> "o" [] c = "P" -> "p"
    [] c = "Q" -> "q" [] c = "R" -> "r" [] c = "S" -> "s" [] c = "T" -> "t"
    [] c = "U" -> "u" [] c = "V" -> "v" [] c = "W" -> "w" [] c = "X" -> "x"
    [] c = "Y" -> "y" [] c = "Z" -> "z" [] c = "Ç" -> "ç" [] c = "Õ" -> "õ"
    [] c = "Ã" -> "ã"
    [] OTHER -> c

RECURSIVE StrLower(_)
StrLower(s) ==
  IF Len(s) = 0 THEN ""
  ELSE LowerChar(SubSeq(s, 1, 1)) \o StrLower(SubSeq(s, 2, Len(s)))

RECURSIVE StrStrip(_)
StrStrip(s) ==
  IF Len(s) = 0 THEN ""
  ELSE IF SubSeq(s, 1, 1) = " " THEN StrStrip(SubSeq(s, 2, Len(s)))
  ELSE IF SubSeq(s, Len(s), Len(s)) = " " THEN StrStrip(SubSeq(s, 1, Len(s) - 1))
  ELSE s

DigitChars == <<"0", "1", "2", "3", "4", "5", "6", "7", "8", "9">>
IsDigit(c) == \E i \in 1..10 : DigitChars[i] = c
DigitVal(c) == (CHOOSE i \in 1..10 : DigitChars[i] = c) - 1

\* the number a run of digits s[a..b] spells, -1 when it holds a non-digit
RECURSIVE DigitsVal(_, _, _)
DigitsVal(s, a, b) ==
  IF a > b THEN 0
  ELSE IF ~IsDigit(SubSeq(s, b, b)) THEN -1
  ELSE LET hi == DigitsVal(s, a, b - 1)
       IN IF hi < 0 THEN -1 ELSE hi * 10 + DigitVal(SubSeq(s, b, b))

RECURSIVE NatToStr(_)
NatToStr(k) ==
  IF k < 10 THEN DigitChars[k + 1]
  ELSE NatToStr(k \div 10) \o DigitChars[(k % 10) + 1]

Pad2(k) == IF k < 10 THEN "0" \o NatToStr(k) ELSE NatToStr(k)

-----------------------------------------------------------------------------
(* DataFrames *)

Frame(cols, dt, rws) == [columns |-> cols, dtype |-> dt, rows |-> rws]
EmptyFrame == Frame({}, <<>>, <<>>)
Column(d, c) == [i \in 1..Len(d.rows) |-> d.rows[i][c]]

\* pandas' dtype for a freshly read column
InferDtype(cells) ==
  IF Len(cells) > 0 /\ \A i \in DOMAIN cells : cells[i].t \in {"num", "null"}
  THEN "float64"
  ELSE "object"

\* d with column c set to the cells (df[c] = ...), of dtype dt
SetColumn(d, c, cells, dt) ==
  Frame(d.columns \cup {c},
        [k \in d.columns \cup {c} |-> IF k = c THEN dt ELSE d.dtype[k]],
        [i \in 1..Len(d.rows) |->
           [k \in d.columns \cup {c} |-> IF k = c THEN cells[i] ELSE d.rows[i][k]]])

\* d[mask]: the rows whose index is in keep, in order
RECURSIVE SelectSeq2(_, _, _)
SelectSeq2(rws, keep, i) ==
  IF i > Len(rws) THEN <<>>
  ELSE (IF i \in keep THEN <<rws[i]>> ELSE <<>>) \o SelectSeq2(rws, keep, i + 1)

Mask(d, keep) == Frame(d.columns, d.dtype, SelectSeq2(d.rows, keep, 1))

-----------------------------------------------------------------------------
(* normalise_and_rename *)

rename_map(k) ==
  CASE k = "data" -> "date"
    [] k = "hora" -> "start_time"
    [] k = "profissional" -> "professional"
    [] k = "atendido" -> "patient"
    [] k = "observações" -> "description"
    [] k = "observacoes" -> "description"
    [] k = "tipo falta" -> "tipo_falta"
    [] k = "setor" -> "setor"
    [] OTHER -> k

NormaliseName(h) == rename_map(StrLower(StrStrip(h)))

normalise_and_rename(d) ==
  LET cols == {NormaliseName(h) : h \in d.columns}
      Old(c) == CHOOSE h \in d.columns : NormaliseName(h) = c
  IN Frame(cols,
           [c \in cols |-> d.dtype[Old(c)]],
           [i \in 1..Len(d.rows) |-> [c \in cols |-> d.rows[i][Old(c)]]])

\* required_cols with date and start_time forgotten
required_cols_short == {"professional", "patient", "tipo_falta", "setor"}

required_cols == {"date", "start_time", "professional", "patient", "tipo_falta", "setor"}

-----------------------------------------------------------------------------
(* Timestamps: pd.to_datetime, Timestamp.isoformat *)

DaysInMonth(y, m) ==
  CASE m \in {4, 6, 9, 11} -> 30
    [] m = 2 -> IF y % 4 = 0 THEN 29 ELSE 28
    [] OTHER -> 31

RECURSIVE DaysBeforeMonth(_, _)
DaysBeforeMonth(y, m) ==
  IF m = 1 THEN 0 ELSE DaysBeforeMonth(y, m - 1) + DaysInMonth(y, m - 1)

DaysBeforeYear(y) == (y - 2000) * 365 + ((y - 2000 + 3) \div 4)

\* minutes since 2000-01-01T00:00 of a civil date and time, -1 when invalid
CivilMinutes(y, m, d, hh, mm) ==
  IF /\ y \in 2000..2099 /\ m \in 1..12 /\ d >= 1 /\ hh \in 0..23 /\ mm \in 0..59
     /\ d <= DaysInMonth(y, m)
  THEN (DaysBeforeYear(y) + DaysBeforeMonth(y, m) + d - 1) * 1440 + hh * 60 + mm
  ELSE -1

\* "YYYY-MM-DD": minutes of its midnight, -1 when the text is no such date
ParseDateText(s) ==
  IF Len(s) = 10 /\ SubSeq(s, 5, 5) = "-" /\ SubSeq(s, 8, 8) = "-"
  THEN CivilMinutes(DigitsVal(s, 1, 4), DigitsVal(s, 6, 7), DigitsVal(s, 9, 10), 0, 0)
  ELSE -1

\* "HH:MM": minutes into the day, -1 when the text is no such time
ParseTimeText(s) ==
  IF Len(s) = 5 /\ SubSeq(s, 3, 3) = ":"
  THEN LET hh == DigitsVal(s, 1, 2)
           mm == DigitsVal(s, 4, 5)
       IN IF hh \in 0..23 /\ mm \in 0..59 THEN hh * 60 + mm ELSE -1
  ELSE -1

\* the parser of pd.to_datetime on the text forms the uploads hold:
\* "YYYY-MM-DD HH:MM", "YYYY-MM-DD" and "HH:MM" (a bare time lands on day 0);
\* every other text is unparseable
ParseTimestampText(s) ==
  IF Len(s) = 16 /\ SubSeq(s, 11, 11) = " "
  THEN LET dd == ParseDateText(SubSeq(s, 1, 10))
           tt == ParseTimeText(SubSeq(s, 12, 16))
       IN IF dd < 0 \/ tt < 0 THEN -1 ELSE dd + tt
  ELSE IF Len(s) = 10 THEN ParseDateText(s)
  ELSE IF Len(s) = 5 THEN ParseTimeText(s)
  ELSE -1

\* pd.to_datetime(cell, errors="coerce")
ToDatetimeCoerce(c) ==
  CASE c.t = "ts" -> c
    [] c.t = "str" -> IF ParseTimestampText(c.s) < 0 THEN NaN ELSE Ts(ParseTimestampText(c.s))
    [] OTHER -> NaN

\* whether pd.to_datetime(cell) without errors="coerce" raises
ToDatetimeRaises(c) == c.t = "num" \/ (c.t = "str" /\ ParseTimestampText(c.s) < 0)

YearOf(day) == CHOOSE y \in 2000..2099 : DaysBeforeYear(y) <= day /\ day < DaysBeforeYear(y + 1)
MonthOf(y, doy) ==
  CHOOSE m \in 1..12 : DaysBeforeMonth(y, m) <= doy /\ doy < DaysBeforeMonth(y, m) + DaysInMonth(y, m)

\* Timestamp.isoformat(); NaT.isoformat() is "NaT"
IsoFormat(c) ==
  IF c.t # "ts" THEN "NaT"
  ELSE LET day == c.n \div 1440
           y == YearOf(day)
           doy == day - DaysBeforeYear(y)
           m == MonthOf(y, doy)
           d == doy - DaysBeforeMonth(y, m) + 1
           hh == (c.n % 1440) \div 60
           mm == c.n % 60
       IN NatToStr(y) \o "-" \o Pad2(m) \o "-" \o Pad2(d) \o "T"
            \o Pad2(hh) \o ":" \o Pad2(mm) \o ":00"

\* Series.astype(str) on one cell
AsStr(c) ==
  CASE c.t = "str" -> c.s
    [] c.t = "num" -> IF c.n < 0 THEN "-" \o NatToStr(0 - c.n) ELSE NatToStr(c.n)
    [] c.t = "ts" -> SubSeq(IsoFormat(c), 1, 10) \o " " \o SubSeq(IsoFormat(c), 12, 19)
    [] OTHER -> "nan"

\* Timestamp.date() then pd.to_datetime(date): midnight of the day
Midnight(c) == Ts((c.n \div 1440) * 1440)

-----------------------------------------------------------------------------
(* Uploaded files: what pd.read_csv / pd.read_excel hand to the script *)

Concepts == {"date", "start_time", "professional", "patient", "tipo_falta",
             "setor", "description", "duration"}

\* a raw table: hdr maps each concept to the header the file spells it with
\* ("" when the file has no such column), base holds each row's cells by concept
RawTable(hdr, base) ==
  LET present == {k \in Concepts : hdr[k] # ""}
      cols == {hdr[k] : k \in present}
      Of(h) == CHOOSE k \in present : hdr[k] = h
  IN Frame(cols,
           [h \in cols |-> InferDtype([i \in 1..Len(base) |-> base[i][Of(h)]])],
           [i \in 1..Len(base) |-> [h \in cols |-> base[i][Of(h)]]])

BaseRow(d, t, pr, pa, tf, se, de, du) ==
  [date |-> d, start_time |-> t, professional |-> pr, patient |-> pa,
   tipo_falta |-> tf, setor |-> se, description |-> de, duration |-> du]

\* the two rows of the end-to-end scenario
ScenarioRows ==
  << BaseRow(Str("2024-01-10"), Str("09:00"), Str("Dr.A"), Str("P1"), Str("Atendido"),
             Str("S1"), NaN, NaN),
     BaseRow(Str("2024-01-10"), Str("09:00"), Str("Dr.A"), Str("P2"), Str("Paciente"),
             Str("S1"), Str("retorno"), Num(45)) >>

RowUniverse ==
  { ScenarioRows[1], ScenarioRows[2],
    BaseRow(Str("2024-01-11"), Str("14:30"), Str("Dr.B"), Str("P3"), Str("Profissional"),
            Str("S2"), Str("primeira consulta, trazer exames anteriores"), Num(-15)),
    BaseRow(Str("n/a"), Str("09:00"), Str("Dr.B"), Str("P4"), NaN,
            Str("S2"), NaN, Str("abc")) }

PortugueseHeaders ==
  [date |-> "Data", start_time |-> "Hora", professional |-> "Profissional",
   patient |-> "Atendido", tipo_falta |-> "Tipo Falta", setor |-> "Setor",
   description |-> "Observações", duration |-> ""]

DurationHeaders == {"", "duração_minutos", "Duracao_Minutos"}

\* the headers a file may spell each concept with
HeaderChoices ==
  [date |-> {"", "Data", " DATE "}, start_time |-> {"", "Hora", "start_time"},
   professional |-> {"", "Profissional"}, patient |-> {"", "Atendido", "PATIENT"},
   tipo_falta |-> {"", "Tipo Falta"}, setor |-> {"", "Setor"},
   description |-> {"", "Observações", "observacoes"}, duration |-> DurationHeaders]

RowSeqs == UNION {[1..n -> RowUniverse] : n \in 0..MaxRows}

TimeSlots == <<"08:00", "09:00", "14:00", "15:30">>
Outcomes == <<"Atendido", "Paciente", "Profissional">>

\* row i of a large upload: four appointments a day from 2024-01-01 on, every
\* patient and every duration different
LargeRow(i) ==
  LET day == DaysBeforeYear(2024) + ((i - 1) \div 4)
  IN BaseRow(Str(SubSeq(IsoFormat(Ts(day * 1440)), 1, 10)),
             Str(TimeSlots[((i - 1) % 4) + 1]),
             Str(IF i % 2 = 0 THEN "Dr.A" ELSE "Dr.B"),
             Str("P" \o NatToStr(i)),
             Str(Outcomes[(i % 3) + 1]),
             Str("S1"), NaN, Num(i))

LargeRows(n) == [i \in 1..n |-> LargeRow(i)]

\* every way a file may spell (or leave out) each concept
HeaderMaps ==
  {[date |-> a, start_time |-> b, professional |-> c, patient |-> d,
    tipo_falta |-> e, setor |-> f, description |-> g, duration |-> h] :
     a \in HeaderChoices.date, b \in HeaderChoices.start_time,
     c \in HeaderChoices.professional, d \in HeaderChoices.patient,
     e \in HeaderChoices.tipo_falta, f \in HeaderChoices.setor,
     g \in HeaderChoices.description, h \in HeaderChoices.duration}

Uploads ==
  \* every spelling of the headers, over the scenario's rows
  {RawTable(h, ScenarioRows) : h \in HeaderMaps}
  \cup
  \* every table of up to MaxRows rows, with and without a duration column
  {RawTable([PortugueseHeaders EXCEPT !.duration = du], rws) :
       du \in DurationHeaders, rws \in RowSeqs}
  \cup
  \* large tables, around the categorical threshold
  {RawTable([PortugueseHeaders EXCEPT !.duration = "duracao_minutos"],
            LargeRows(CategoricalThreshold + k)) : k \in 1..MaxExtraRows}

-----------------------------------------------------------------------------
(* The script, top to bottom *)

\* no filter widget has been answered
NoWidget == [column |-> "", kind |-> "", value |-> {}]

Init ==
  /\ uploaded \in Uploads
  /\ pc = "uploaded"
  /\ df = EmptyFrame
  /\ error = {}
  /\ fdf = EmptyFrame
  /\ to_filter_columns = <<>>
  /\ widget = NoWidget
  /\ filtered = EmptyFrame
  /\ events = <<>>
  /\ pacientes_ausentes = 0
  /\ profissional_ausentes = 0
  /\ records = <<>>

\* line 174: df = normalise_and_rename(df)
Normalise ==
  /\ pc = "uploaded"
  /\ df' = normalise_and_rename(uploaded)
  /\ pc' = "normalised"
  /\ UNCHANGED <<widget, uploaded, error, fdf, to_filter_columns, filtered, events,
                 pacientes_ausentes, profissional_ausentes, records>>

\* lines 179-183: st.error and st.stop() when a required column is missing
CheckRequired ==
  /\ pc = "normalised"
  /\ LET missing == required_cols \ df.columns
     IN IF missing # {}
        THEN error' = missing /\ pc' = "stopped"
        ELSE error' = error /\ pc' = "checked"
  /\ UNCHANGED <<widget, uploaded, df, fdf, to_filter_columns, filtered, events,
                 pacientes_ausentes, profissional_ausentes, records>>

\* series[:-2]: all but the last two elements
SliceToMinus2(series) == SubSeq(series, 1, Len(series) - 2)

\* left + " " + right on two Series: aligned by index, NaN where right has none
ConcatAligned(left, right) ==
  [i \in DOMAIN left |->
     IF i \in DOMAIN right THEN Str(left[i] \o " " \o right[i]) ELSE NaN]

\* line 188
StartColumn(d) ==
  LET dates == [i \in 1..Len(d.rows) |-> AsStr(d.rows[i]["date"])]
      times == [i \in 1..Len(d.rows) |-> AsStr(d.rows[i]["start_time"])]
      text == ConcatAligned(dates, SliceToMinus2(times))
  IN [i \in 1..Len(d.rows) |-> ToDatetimeCoerce(text[i])]

ProcessDatetime ==
  /\ pc = "checked"
  /\ df' = SetColumn(df, "start", StartColumn(df), "datetime64")
  /\ pc' = "dated"
  /\ UNCHANGED <<widget, uploaded, error, fdf, to_filter_columns, filtered, events,
                 pacientes_ausentes, profissional_ausentes, records>>

\* line 193: df.get(a) or df.get(b).  bool(Series) raises ValueError, so the
\* expression raises whenever the first column exists
DurationLookupRaises(d) == "duração_minutos" \in d.columns
DurationSeriesName(d) ==
  IF "duracao_minutos" \in d.columns THEN "duracao_minutos" ELSE ""

\* Series.fillna(DEFAULT_DURATION_MIN)
FillNa(cells, k) == [i \in DOMAIN cells |-> IF IsNull(cells[i]) THEN Num(k) ELSE cells[i]]

\* pd.to_timedelta(series, unit="m") raises on text
ToTimedeltaRaises(cells) == \E i \in DOMAIN cells : cells[i].t = "str"

\* lines 194-197: minutes each row's end lies after its start
EndDelta(d) ==
  IF DurationSeriesName(d) # ""
  THEN LET filled == FillNa(Column(d, DurationSeriesName(d)), DEFAULT_DURATION_MIN)
       IN [i \in 1..Len(d.rows) |-> filled[i].n]
  ELSE [i \in 1..Len(d.rows) |-> DEFAULT_DURATION_MIN]

\* Timestamp + Timedelta; NaT + anything is NaT
AddMinutes(c, k) == IF c.t = "ts" THEN Ts(c.n + k) ELSE NaN

\* lines 193-198; an uncaught exception ends the run
ComputeEnd ==
  /\ pc = "dated"
  /\ IF \/ DurationLookupRaises(df)
        \/ /\ DurationSeriesName(df) # ""
           /\ ToTimedeltaRaises(FillNa(Column(df, DurationSeriesName(df)), DEFAULT_DURATION_MIN))
     THEN df' = df /\ pc' = "crashed"
     ELSE /\ df' = SetColumn(df, "end",
                     [i \in 1..Len(df.rows) |-> AddMinutes(df.rows[i]["start"], EndDelta(df)[i])],
                     "datetime64")
          /\ pc' = "ended"
  /\ UNCHANGED <<widget, uploaded, error, fdf, to_filter_columns, filtered, events,
                 pacientes_ausentes, profissional_ausentes, records>>

\* lines 201-204
Title(d, r) ==
  IF "description" \in d.columns /\ ~IsNull(r["description"])
  THEN Str(AsStr(r["patient"]) \o " (" \o
           SubSeq(AsStr(r["description"]), 1,
                  IF Len(AsStr(r["description"])) < TitleDescriptionChars
                  THEN Len(AsStr(r["description"])) ELSE TitleDescriptionChars) \o ")")
  ELSE r["patient"]

\* lines 206-210
Color(c) ==
  CASE c = Str("Atendido") -> Str("#0C7A0C")
    [] c = Str("Paciente") -> Str("#2A3B9E")
    [] c = Str("Profissional") -> Str("#E70F0F")
    [] OTHER -> c

BuildTitleColor ==
  /\ pc = "ended"
  /\ LET titled == SetColumn(df, "title",
                     [i \in 1..Len(df.rows) |-> Title(df, df.rows[i])], "object")
     IN df' = SetColumn(titled, "color",
                     [i \in 1..Len(df.rows) |-> Color(df.rows[i]["tipo_falta"])],
                     df.dtype["tipo_falta"])
  /\ pc' = "ready"
  /\ UNCHANGED <<widget, uploaded, error, fdf, to_filter_columns, filtered, events,
                 pacientes_ausentes, profissional_ausentes, records>>

-----------------------------------------------------------------------------
(* filter_dataframe *)

\* lines 87-95: an object column every cell of which parses becomes datetime64
ConvertDatetimes(d) ==
  LET Converts(c) == /\ d.dtype[c] = "object"
                     /\ \A i \in 1..Len(d.rows) : ~ToDatetimeRaises(d.rows[i][c])
  IN Frame(d.columns,
           [c \in d.columns |-> IF Converts(c) THEN "datetime64" ELSE d.dtype[c]],
           [i \in 1..Len(d.rows) |->
              [c \in d.columns |->
                 IF Converts(c) THEN ToDatetimeCoerce(d.rows[i][c]) ELSE d.rows[i][c]]])

\* without the copy the local name is the caller's frame
CallerFrameAliased(caller, local) == local

\* line 84: df = df.copy() rebinds the local name, so the caller's frame is
\* not the one lines 87-95 assign columns of
CallerFrameAfterCopy(caller, local) == caller

\* Series.unique(): the distinct cells, the null among them
Unique(d, c) == Range(Column(d, c))
\* Series.nunique(): the number of distinct non-null cells
NUnique(d, c) == Cardinality({x \in Unique(d, c) : ~IsNull(x)})

\* lines 104-134: the predicate builder the column gets
Kind(d, c) ==
  IF NUnique(d, c) < CategoricalThreshold THEN "categorical"
  ELSE IF d.dtype[c] = "float64" THEN "numeric"
  ELSE IF d.dtype[c] = "datetime64" THEN "temporal"
  ELSE "text"

\* a membership test in which a null never matches
FilterCategoricalNullNeverIn(d, c, user_cat_input) ==
  Mask(d, {i \in 1..Len(d.rows) :
             ~IsNull(d.rows[i][c]) /\ d.rows[i][c] \in user_cat_input})

\* line 110: df[df[column].isin(user_cat_input)]
FilterCategorical(d, c, user_cat_input) ==
  Mask(d, {i \in 1..Len(d.rows) : d.rows[i][c] \in user_cat_input})

SetMin(S) == CHOOSE x \in S : \A y \in S : x <= y
SetMax(S) == CHOOSE x \in S : \A y \in S : x >= y
Values(d, c) == {x.n : x \in {y \in Unique(d, c) : ~IsNull(y)}}

\* lines 112-122: the slider stands at _min + k * step, step = (_max - _min) / 100;
\* between() is inclusive and false on NaN
FilterNumeric(d, c, klo, khi) ==
  LET lo == SetMin(Values(d, c))
      hi == SetMax(Values(d, c))
  IN Mask(d, {i \in 1..Len(d.rows) :
                /\ ~IsNull(d.rows[i][c])
                /\ 100 * lo + klo * (hi - lo) <= 100 * d.rows[i][c].n
                /\ 100 * d.rows[i][c].n <= 100 * lo + khi * (hi - lo)})

\* lines 131-134: two dates, each turned into the timestamp of its midnight;
\* anything but two dates leaves the frame alone
FilterTemporal(d, c, user_date_input) ==
  IF Len(user_date_input) = 2
  THEN LET start_date == Midnight(Ts(user_date_input[1] * 1440))
           end_date == Midnight(Ts(user_date_input[2] * 1440))
       IN Mask(d, {i \in 1..Len(d.rows) :
                     /\ ~IsNull(d.rows[i][c])
                     /\ start_date.n <= d.rows[i][c].n
                     /\ d.rows[i][c].n <= end_date.n})
  ELSE d

\* str.contains for a pattern without metacharacters
Contains(text, pat) ==
  \E i \in 1..(Len(text) - Len(pat) + 1) : SubSeq(text, i, i + Len(pat) - 1) = pat

\* lines 139-140
FilterText(d, c, user_text_input) ==
  IF user_text_input # ""
  THEN Mask(d, {i \in 1..Len(d.rows) : Contains(AsStr(d.rows[i][c]), user_text_input)})
  ELSE d

\* what the user may enter -------------------------------------------------

\* the columns the user picks from
PickableColumns == {"tipo_falta", "start", "patient", "duracao_minutos"}

\* the sequences of at most n different elements of S
RECURSIVE DistinctSeqs(_, _)
DistinctSeqs(S, n) ==
  IF n = 0 THEN {<<>>}
  ELSE {<<>>} \cup
       UNION {{<<x>> \o q : q \in DistinctSeqs(S \ {x}, n - 1)} : x \in S}

\* the multiselect's selections: everything, nothing, or one value
CatInputs(d, c) == {Unique(d, c), {}} \cup {{x} : x \in Unique(d, c)}
SliderStops == {0, 50, 100}
Days(d, c) == {v \div 1440 : v \in Values(d, c)}
\* the date_input's ranges, around the first and last day, or a single date
DateInputs(d, c) ==
  LET lo == SetMin(Days(d, c))
      hi == SetMax(Days(d, c))
      near == {lo, lo + 1, hi - 1, hi}
  IN {<<a, b>> : a \in near, b \in {x \in near : x >= lo}} \cup {<<lo>>}
TextInputs == {"", "P1", "P10", "nan"}

\* lines 79-82: the checkbox is off, the frame comes back as it is
FilterOff ==
  /\ pc = "ready"
  /\ filtered' = df
  /\ pc' = "filtered"
  /\ UNCHANGED <<widget, uploaded, df, error, fdf, to_filter_columns, events,
                 pacientes_ausentes, profissional_ausentes, records>>

\* lines 84-100: copy, convert, and the user's choice of columns
FilterBegin ==
  /\ pc = "ready"
  /\ fdf' = ConvertDatetimes(df)
  /\ df' = CallerFrameAfterCopy(df, fdf')
  /\ to_filter_columns' \in DistinctSeqs(PickableColumns \cap df.columns, MaxFilterCols)
  /\ pc' = "filtering"
  /\ UNCHANGED <<widget, uploaded, error, filtered, events,
                 pacientes_ausentes, profissional_ausentes, records>>

\* lines 101-140: one turn of the loop over the chosen columns
FilterColumn ==
  /\ pc = "filtering"
  /\ to_filter_columns # <<>>
  /\ LET column == Head(to_filter_columns)
         kind == Kind(fdf, column)
     IN CASE kind = "categorical" ->
               \E user_cat_input \in CatInputs(fdf, column) :
                 /\ fdf' = FilterCategorical(fdf, column, user_cat_input)
                 /\ widget' = [column |-> column, kind |-> kind, value |-> user_cat_input]
          [] kind = "numeric" ->
               \E klo \in SliderStops, khi \in SliderStops :
                 /\ klo <= khi
                 /\ fdf' = FilterNumeric(fdf, column, klo, khi)
                 /\ widget' = [column |-> column, kind |-> kind, value |-> <<klo, khi>>]
          [] kind = "temporal" ->
               \E user_date_input \in DateInputs(fdf, column) :
                 /\ fdf' = FilterTemporal(fdf, column, user_date_input)
                 /\ widget' = [column |-> column, kind |-> kind, value |-> user_date_input]
          [] OTHER ->
               \E user_text_input \in TextInputs :
                 /\ fdf' = FilterText(fdf, column, user_text_input)
                 /\ widget' = [column |-> column, kind |-> kind, value |-> user_text_input]
  /\ to_filter_columns' = Tail(to_filter_columns)
  /\ UNCHANGED <<pc, uploaded, df, error, filtered, events,
                 pacientes_ausentes, profissional_ausentes, records>>

\* line 142, line 243
FilterReturn ==
  /\ pc = "filtering"
  /\ to_filter_columns = <<>>
  /\ filtered' = fdf
  /\ fdf' = EmptyFrame
  /\ pc' = "filtered"
  /\ UNCHANGED <<widget, uploaded, df, error, to_filter_columns, events,
                 pacientes_ausentes, profissional_ausentes, records>>

-----------------------------------------------------------------------------
(* Events, ratios, persistence *)

\* lines 250-264: one event per row of the filtered frame
Event(r) ==
  [title |-> r["title"],
   start |-> IsoFormat(r["start"]),
   end |-> IsoFormat(r["end"]),
   backgroundColor |-> r["color"],
   borderColor |-> r["color"],
   extendedProps |-> [professional |-> r["professional"], patient |-> r["patient"],
                      description |-> r["professional"]]]

GenerateEvents ==
  /\ pc = "filtered"
  /\ events' = [i \in 1..Len(filtered.rows) |-> Event(filtered.rows[i])]
  /\ pc' = "shown"
  /\ UNCHANGED <<widget, uploaded, df, error, fdf, to_filter_columns, filtered,
                 pacientes_ausentes, profissional_ausentes, records>>

\* len(filtered[filtered['tipo_falta'] == category])
CategoryCount(view, category) ==
  Cardinality({i \in 1..Len(view.rows) : view.rows[i]["tipo_falta"] = Str(category)})

\* len(filtered)
RatioTotal(view) == Len(view.rows)

\* round(num / den, 0) as Python rounds: ties to the even neighbour
RoundHalfEven(num, den) ==
  LET q == num \div den
      r == num % den
  IN IF 2 * r < den THEN q
     ELSE IF 2 * r > den THEN q + 1
     ELSE IF q % 2 = 0 THEN q ELSE q + 1

\* the ratio with the "* 100" forgotten: a fraction, not a percentage
RatioAsFraction(view, category) ==
  IF RatioTotal(view) = 0 THEN 0
  ELSE RoundHalfEven(CategoryCount(view, category) * 100, RatioTotal(view))

\* lines 308-318: count / total * 100 rounded to two decimals, in hundredths of
\* a percent; the bare except turns the ZeroDivisionError into 0
Ratio(view, category) ==
  IF RatioTotal(view) = 0 THEN 0
  ELSE RoundHalfEven(CategoryCount(view, category) * 10000, RatioTotal(view))

ShowMetrics ==
  /\ pc = "shown"
  /\ pacientes_ausentes' = Ratio(filtered, "Paciente")
  /\ profissional_ausentes' = Ratio(filtered, "Profissional")
  /\ pc' = "measured"
  /\ UNCHANGED <<widget, uploaded, df, error, fdf, to_filter_columns, filtered, events, records>>

\* line 321: df.to_dict(orient='records')
ToRecords(source) == source.rows

\* lines 320-327: the button is pressed, one document per record
Persist ==
  /\ pc = "measured"
  /\ records' = ToRecords(df)
  /\ pc' = "persisted"
  /\ UNCHANGED <<widget, uploaded, df, error, fdf, to_filter_columns, filtered, events,
                 pacientes_ausentes, profissional_ausentes>>

\* line 320: the button is not pressed
Finish ==
  /\ pc = "measured"
  /\ pc' = "done"
  /\ UNCHANGED <<widget, uploaded, df, error, fdf, to_filter_columns, filtered, events,
                 pacientes_ausentes, profissional_ausentes, records>>

Next ==
  \/ Normalise
  \/ CheckRequired
  \/ ProcessDatetime
  \/ ComputeEnd
  \/ BuildTitleColor
  \/ FilterOff
  \/ FilterBegin
  \/ FilterColumn
  \/ FilterReturn
  \/ GenerateEvents
  \/ ShowMetrics
  \/ Persist
  \/ Finish

Spec == Init /\ [][Next]_vars

-----------------------------------------------------------------------------
(* Properties *)

CoreColumns == {"date", "start_time", "professional", "patient"}
Reached(stages) == pc \in stages
AfterStart == {"dated", "crashed", "ended", "ready", "filtering", "filtered", "shown",
               "measured", "persisted", "done"}
AfterEnd == AfterStart \ {"dated", "crashed"}
AfterMetrics == {"measured", "persisted", "done"}

\* the instant a row's own date and start_time spell, -1 when either does not parse
OwnInstant(r) ==
  LET dd == ParseDateText(AsStr(r["date"]))
      tt == ParseTimeText(AsStr(r["start_time"]))
  IN IF dd < 0 \/ tt < 0 THEN -1 ELSE dd + tt

\* C1: once start is rebuilt, every row whose date and start_time parse has a
\* non-null start equal to the instant of its own date and its own start_time
C1_StartIsOwnDateAndTime ==
  Reached(AfterStart) =>
    \A i \in 1..Len(df.rows) :
      OwnInstant(df.rows[i]) >= 0 => df.rows[i]["start"] = Ts(OwnInstant(df.rows[i]))

\* C2: when date, start_time, professional or patient is missing after the
\* rename, the run reports the missing names and stops: it rebuilds no start or
\* end, makes no event, shows no filtered frame or ratio and writes no document
C2_MissingColumnsHalt ==
  (pc # "uploaded" /\ ~(CoreColumns \subseteq df.columns)) =>
    /\ pc \in {"normalised", "stopped"}
    /\ pc = "stopped" => (CoreColumns \ df.columns) \subseteq error
    /\ "start" \notin df.columns /\ "end" \notin df.columns
    /\ events = <<>> /\ filtered = EmptyFrame /\ fdf = EmptyFrame
    /\ pacientes_ausentes = 0 /\ profissional_ausentes = 0
    /\ records = <<>>

C2_StoppedOnMissingDate ==
  /\ pc = "stopped"
  /\ "date" \notin df.columns
  /\ "date" \in error
  /\ {"professional", "patient", "tipo_falta", "setor"} \subseteq df.columns
  /\ events = <<>> /\ records = <<>>

\* C3: every event handed to the calendar has a non-null start
C3_EventsHaveStart ==
  \A i \in 1..Len(events) : events[i].start # "NaT"

DurationColumns == {"duração_minutos", "duracao_minutos"}
HasDurationColumn == df.columns \cap DurationColumns # {}
DurationCell(r) ==
  LET c == CHOOSE c \in df.columns \cap DurationColumns : TRUE IN r[c]
ValidDuration(c) == c.t = "num" /\ c.n >= 0
BadDuration(c) == c.t = "str" \/ (c.t = "num" /\ c.n < 0)
AllDurationsValidOrMissing ==
  HasDurationColumn =>
    \A i \in 1..Len(df.rows) :
      ValidDuration(DurationCell(df.rows[i])) \/ IsNull(DurationCell(df.rows[i]))
\* end - start of a row, in minutes
Span(r) == r["end"].n - r["start"].n

\* C4: with a duration column under either spelling whose values are valid or
\* missing, or with no duration column, the run does not fail, and every row
\* that has a start ends d minutes later when its duration d is valid and 30
\* minutes later otherwise
C4_DurationRule ==
  (pc # "uploaded" /\ AllDurationsValidOrMissing) =>
    /\ pc # "crashed"
    /\ Reached(AfterEnd) =>
         \A i \in 1..Len(df.rows) :
           ~IsNull(df.rows[i]["start"]) =>
             /\ ~IsNull(df.rows[i]["end"])
             /\ Span(df.rows[i]) =
                  IF HasDurationColumn /\ ValidDuration(DurationCell(df.rows[i]))
                  THEN DurationCell(df.rows[i]).n ELSE 30

\* C5: filtering never changes the script's frame, and the write that follows
\* sends one document per row of that unfiltered frame
C5_FilterLeavesSource ==
  [][/\ pc \in {"ready", "filtering"} => df' = df
     /\ pc' = "persisted" =>
          /\ records' = df.rows
          /\ Len(records') = Len(uploaded.rows)]_vars

C5_PersistedAllAfterFilter ==
  /\ pc = "persisted"
  /\ widget # NoWidget
  /\ Len(filtered.rows) < Len(df.rows)
  /\ filtered.dtype # df.dtype
  /\ records = df.rows
  /\ Len(records) > 0

\* the step of the filter loop that answers a widget of this kind
FilterStep(kind) ==
  /\ pc = "filtering" /\ to_filter_columns # <<>>
  /\ Kind(fdf, Head(to_filter_columns)) = kind

C7_DateRangeCoversWholeDays ==
  [][(FilterStep("temporal") /\ Len(widget'.value) = 2) =>
       fdf'.rows =
         SelectSeq2(fdf.rows,
                    {i \in 1..Len(fdf.rows) :
                       LET c == fdf.rows[i][Head(to_filter_columns)]
                       IN /\ ~IsNull(c)
                          /\ widget'.value[1] * 1440 <= c.n
                          /\ c.n < (widget'.value[2] + 1) * 1440}, 1)]_vars

\* C8: each ratio shown is count / total * 100 over the filtered frame (to two
\* decimals), and is 0 when the filtered frame has no row
C8_Within(metric, category) ==
  LET total == Len(filtered.rows)
      count == Cardinality({i \in 1..total :
                              filtered.rows[i]["tipo_falta"] = Str(category)})
      diff == metric * total - 10000 * count
  IN IF total = 0 THEN metric = 0
     ELSE 2 * diff <= total /\ 2 * (0 - diff) <= total

C8_MetricsRatio ==
  Reached(AfterMetrics) =>
    /\ C8_Within(pacientes_ausentes, "Paciente")
    /\ C8_Within(profissional_ausentes, "Profissional")

C8_EmptyViewShowsZero ==
  /\ pc = "measured"
  /\ Len(filtered.rows) = 0
  /\ \E i \in 1..Len(df.rows) : df.rows[i]["tipo_falta"] = Str("Paciente")
  /\ pacientes_ausentes = 0 /\ profissional_ausentes = 0

\* C9: a table that has date, start_time, professional and patient is never
\* stopped for missing columns
C9_OptionalColumnsOptional ==
  (pc # "uploaded" /\ CoreColumns \subseteq df.columns) => pc # "stopped"

\* C10: with a duration column the script reads, a negative or non-numeric
\* duration neither fails the run nor moves the end: every such row that has a
\* start ends 30 minutes after it
C10_BadDurationFallsBack ==
  (pc # "uploaded" /\ "duracao_minutos" \in df.columns) =>
    /\ pc # "crashed"
    /\ Reached(AfterEnd) =>
         \A i \in 1..Len(df.rows) :
           (BadDuration(df.rows[i]["duracao_minutos"]) /\ ~IsNull(df.rows[i]["start"])) =>
             Span(df.rows[i]) = 30

====
